---------------------------- MODULE Spec2Model ----------------------------
(***************************************************************************)
(* Model of the weather-station import pipeline                            *)
(* (db_inport_from_cleaned_data.py, with the schema of db_creator.py).     *)
(*                                                                         *)
(* Text is a sequence of characters; a character is a one-letter string,   *)
(* or a name for a character outside ASCII ("E_ACUTE" is U+00C9, "e_acute" *)
(* is U+00E9, "COMB" is the combining acute accent U+0301, "TAB" is U+0009;*)
(* the other names are listed with CodePoints).                            *)
(***************************************************************************)
EXTENDS Integers, Sequences, FiniteSets, TLC

VARIABLES
    \* ---- header locator, checked on its own (SpecHeader)
    hTable,        \* the sheet handed to find_header_row (a sequence of rows)
    hScan,         \* its max_scan_rows argument
    hResult,       \* what it returned
    hPc,           \* "build" | "called"
    \* ---- the world around one run of the import script
    run,           \* number of the current run of the script
    dir,           \* names of the files os.listdir found in DATA_FOLDER
    metaCsv,       \* rows pd.read_csv read from META_FILE
    \* ---- the database (schema of db_creator.py)
    stations,      \* set of rows of table stations
    station_seq,   \* next value of the SERIAL stations.id
    measurements,  \* rows of table measurements, in insertion order
    \* ---- the script
    pc,            \* position in the script
    files,         \* the sorted listing
    cur,           \* 1-based position of the loop variable file in files
    header_row,    \* load_weather_excel: header_row
    picked,        \* load_weather_excel: (date_col, precip_col, temp_col)
    df,            \* the frame load_weather_excel returned
    station_code,  \* main loop: station_code
    station_data,  \* main loop: station_data
    station_id,    \* main loop: station_id
    log,           \* records logged since "Processing: <file>" of the current file
    exc,           \* the exception that ended the script, "" if none
    \* ---- history (not program state)
    stage,         \* stages the current file went through
    stations0,     \* table stations when the current file began
    measurements0, \* table measurements when the current file began
    upserted,      \* the last bundle the upsert committed, per station code
    committed,     \* the bundle the upsert of the current file committed
    \* ---- a text normalizer, checked on its own (SpecText)
    tText,         \* the string handed to the normalizer
    tOnce,         \* what the normalizer returned for tText
    tTwice,        \* what it returned for tOnce
    tPc,           \* "build", then the function called, then ".. twice"
    \* ---- the cleaner's canonicalize_headers, checked on its own (SpecCanon)
    cLabel,        \* a column label c of df.columns
    cN,            \* number of fragments cLabel was put together from
    cCanon,        \* new_cols[c]
    cPc,           \* "build" | "called"
    \* ---- the importer's load_weather_excel, checked on its own (SpecExtract)
    xTable,        \* the sheet: the header row, then two data rows
    xPicked,       \* (date_col, precip_col, temp_col) of pick_columns
    xDf,           \* the frame load_weather_excel returned
    xPc,           \* "build" | "called"
    \* ---- run_pipeline.py (SpecRunner)
    rExists,       \* the scripts that exist in BASE_DIR
    rStep,         \* 1-based position of the loop of main in steps
    rPc,           \* "idle" | "check" | "running" | "done" | "exited"
    rStarted,      \* the scripts subprocess.run was called on, in order
    rRuns,         \* the return codes of the subprocesses that finished
    rExit,         \* exit code of run_pipeline.py, NULL while it runs
    \* ---- the downloaders (SpecDownload)
    dVariant,      \* which script runs: "colima" | "weather" | "hidro"
    dAttempt,      \* download_station_csv: attempt
    dPc,           \* "idle" | "loop" | "returned" | "raised" | "next" | "summary"
    dMsg,          \* the message download_station_csv returned
    dLast,         \* the response of the latest attempt, and whether the
                   \* attempt wrote the file (history)
    dGets,         \* session.get calls of the current download (history)
    dSaved,        \* numbers of the stations whose file was written
    dResults,      \* main: results
    dOk,           \* main: len(ok)
    dFail          \* main: len(fail)

hvars == <<hTable, hScan, hResult, hPc>>
world == <<run, dir, metaCsv>>
db    == <<stations, station_seq, measurements>>
locals == <<header_row, picked, df, station_code, station_data, station_id>>
hist  == <<stage, stations0, measurements0, upserted, committed>>
pvars == <<world, db, pc, files, cur, locals, log, exc, hist>>
tvars == <<tText, tOnce, tTwice, tPc>>
cvars == <<cLabel, cN, cCanon, cPc>>
xvars == <<xTable, xPicked, xDf, xPc>>
rvars == <<rExists, rStep, rPc, rStarted, rRuns, rExit>>
dvars == <<dVariant, dAttempt, dPc, dMsg, dLast, dGets, dSaved, dResults,
           dOk, dFail>>
avars == <<tvars, cvars, xvars, rvars, dvars>>
vars  == <<hvars, pvars, avars>>

(***************************************************************************)
(* Bounds of the model.                                                    *)
(***************************************************************************)
MaxRows == 3          \* rows of a sheet in SpecHeader
MaxRuns == 2          \* runs of the import script
MaxFiles == 2         \* files in DATA_FOLDER during one run

(***************************************************************************)
(* Characters.                                                             *)
(***************************************************************************)
UpperLetters == <<"A","B","C","D","E","F","G","H","I","J","K","L","M",
                  "N","O","P","Q","R","S","T","U","V","W","X","Y","Z">>
LowerLetters == <<"a","b","c","d","e","f","g","h","i","j","k","l","m",
                  "n","o","p","q","r","s","t","u","v","w","x","y","z">>

\* Accented capital letters and, at the same position, their lower case.
UpperAccented == <<"A_ACUTE", "A_CIRC", "A_TILDE", "E_ACUTE",
                   "I_ACUTE", "N_TILDE", "O_ACUTE", "U_ACUTE">>
LowerAccented == <<"a_acute", "a_circ", "a_tilde", "e_acute",
                   "i_acute", "n_tilde", "o_acute", "u_acute">>

\* The characters of the model in code point order (what sorted() compares).
\* Outside ASCII: INV_EXCL U+00A1, COPY U+00A9, SHY U+00AD (soft hyphen),
\* DEG U+00B0, PLUS_MINUS U+00B1, SUP2 U+00B2, SUP3 U+00B3, ORD_M U+00BA,
\* the accented letters, the combining marks COMB U+0301, COMB_CIRC U+0302,
\* COMB_TILDE U+0303, and ZWSP U+200B (zero width space).
CodePoints == <<"TAB", " ", "%", "(", ")", "-", ".", "/",
                "0","1","2","3","4","5","6","7","8","9", ":">>
              \o UpperLetters \o <<"_">> \o LowerLetters
              \o <<"INV_EXCL", "COPY", "SHY", "DEG", "PLUS_MINUS",
                   "SUP2", "SUP3", "ORD_M">>
              \o UpperAccented \o LowerAccented
              \o <<"COMB", "COMB_CIRC", "COMB_TILDE", "ZWSP">>

Chars == {CodePoints[i] : i \in 1..Len(CodePoints)}

IndexOf(seq, c) == CHOOSE i \in 1..Len(seq) : seq[i] = c

IsUpperLetter(c) == \E i \in 1..26 : UpperLetters[i] = c
IsLowerLetter(c) == \E i \in 1..26 : LowerLetters[i] = c
IsAscii(c) == IndexOf(CodePoints, c) <= IndexOf(CodePoints, "z")
IsUpperAccented(c) == \E i \in 1..Len(UpperAccented) : UpperAccented[i] = c
IsLowerAccented(c) == \E i \in 1..Len(LowerAccented) : LowerAccented[i] = c

\* str.isspace for the characters of the model
IsSpace(c) == c \in {" ", "TAB"}

\* unicodedata.category(c) == "Mn"
IsMn(c) == c \in {"COMB", "COMB_CIRC", "COMB_TILDE"}

\* unicodedata.normalize("NFD", c) of one character
NFDChar(c) ==
    CASE c = "A_ACUTE" -> <<"A", "COMB">>
      [] c = "A_CIRC"  -> <<"A", "COMB_CIRC">>
      [] c = "A_TILDE" -> <<"A", "COMB_TILDE">>
      [] c = "E_ACUTE" -> <<"E", "COMB">>
      [] c = "I_ACUTE" -> <<"I", "COMB">>
      [] c = "N_TILDE" -> <<"N", "COMB_TILDE">>
      [] c = "O_ACUTE" -> <<"O", "COMB">>
      [] c = "U_ACUTE" -> <<"U", "COMB">>
      [] c = "a_acute" -> <<"a", "COMB">>
      [] c = "a_circ"  -> <<"a", "COMB_CIRC">>
      [] c = "a_tilde" -> <<"a", "COMB_TILDE">>
      [] c = "e_acute" -> <<"e", "COMB">>
      [] c = "i_acute" -> <<"i", "COMB">>
      [] c = "n_tilde" -> <<"n", "COMB_TILDE">>
      [] c = "o_acute" -> <<"o", "COMB">>
      [] c = "u_acute" -> <<"u", "COMB">>
      [] OTHER         -> <<c>>

\* str.lower of one character
LowerChar(c) ==
    CASE IsUpperLetter(c) -> LowerLetters[IndexOf(UpperLetters, c)]
      [] IsUpperAccented(c) -> LowerAccented[IndexOf(UpperAccented, c)]
      [] OTHER            -> c

\* str.upper of one character
UpperChar(c) ==
    CASE IsLowerLetter(c) -> UpperLetters[IndexOf(LowerLetters, c)]
      [] IsLowerAccented(c) -> UpperAccented[IndexOf(LowerAccented, c)]
      [] OTHER            -> c

\* unicodedata.normalize("NFD", s)
RECURSIVE NFD(_)
NFD(s) == IF s = <<>> THEN <<>> ELSE NFDChar(Head(s)) \o NFD(Tail(s))

NotMn(c) == ~IsMn(c)

\* strip_accents: NFD, then drop the characters of category Mn
strip_accents(s) == SelectSeq(NFD(s), NotMn)

lower(s) == [i \in 1..Len(s) |-> LowerChar(s[i])]
upper(s) == [i \in 1..Len(s) |-> UpperChar(s[i])]

RECURSIVE lstrip(_)
lstrip(s) == IF s # <<>> /\ IsSpace(Head(s)) THEN lstrip(Tail(s)) ELSE s

RECURSIVE rstrip(_)
rstrip(s) ==
    IF s # <<>> /\ IsSpace(s[Len(s)]) THEN rstrip(SubSeq(s, 1, Len(s) - 1)) ELSE s

\* str.strip
strip(s) == rstrip(lstrip(s))

\* _whitespace_re.sub(" ", s): every maximal run of whitespace becomes one space
RECURSIVE collapse_ws(_)
collapse_ws(s) ==
    IF s = <<>> THEN <<>>
    ELSE IF IsSpace(Head(s))
         THEN <<" ">> \o collapse_ws(lstrip(s))
         ELSE <<Head(s)>> \o collapse_ws(Tail(s))

\* norm_text without the whitespace substitution
norm_text_nocollapse(s) == strip(lower(strip_accents(s)))

\* norm_text
norm_text(s) == collapse_ws(strip(lower(strip_accents(s))))

\* str.startswith
startswith(s, p) == Len(s) >= Len(p) /\ SubSeq(s, 1, Len(p)) = p

(***************************************************************************)
(* Cells of a sheet.  k is the kind of the value pandas read: "s" a text   *)
(* (s), "nan" an empty cell, "n" a number (n), "d" a date (day n of        *)
(* January 2020).                                                          *)
(***************************************************************************)
Txt(s)  == [k |-> "s",   s |-> s,    n |-> 0]
NaN     == [k |-> "nan", s |-> <<>>, n |-> 0]
Num(n)  == [k |-> "n",   s |-> <<>>, n |-> n]
Date(n) == [k |-> "d",   s |-> <<>>, n |-> n]

Digits == <<"0","1","2","3","4","5","6","7","8","9">>

\* str(c) of a cell value (numbers and days of the model have one digit)
str(c) ==
    CASE c.k = "s" -> c.s
      [] c.k = "n" -> <<Digits[c.n + 1]>>
      [] c.k = "d" -> <<"2","0","2","0","-","0","1","-","0", Digits[c.n + 1],
                        " ","0","0",":","0","0",":","0","0">>
      [] OTHER     -> <<"n","a","n">>

\* pd.isna
isna(c) == c.k = "nan"

\* norm_columns
norm_columns(cols) ==
    [i \in 1..Len(cols) |-> norm_text(IF isna(cols[i]) THEN <<>> ELSE str(cols[i]))]

fecha == <<"f","e","c","h","a">>

\* any(col.startswith("fecha") for col in row_norm)
LooksLikeHeader(row) ==
    \E j \in 1..Len(row) : startswith(norm_columns(row)[j], fecha)

\* Optional[int]: None is NoRow, a row index is 0-based
NoRow == -1

\* pd.read_excel(file_path, nrows=max_scan_rows, header=None) of a readable sheet
Preview(table, max_scan_rows) ==
    SubSeq(table, 1, IF Len(table) < max_scan_rows THEN Len(table) ELSE max_scan_rows)

\* the position of the first TRUE in a sequence of truth values, 0 if none:
\* a loop that returns at its first hit, or next((c for c in ... if ...), None)
FirstTrue(hits) ==
    IF \E i \in 1..Len(hits) : hits[i]
    THEN CHOOSE i \in 1..Len(hits) : hits[i] /\ \A j \in 1..(i - 1) : ~hits[j]
    ELSE 0

LastTrue(hits) ==
    IF \E i \in 1..Len(hits) : hits[i]
    THEN CHOOSE i \in 1..Len(hits) : hits[i] /\ \A j \in (i + 1)..Len(hits) : ~hits[j]
    ELSE 0

\* any(col.startswith("fecha") for col in row_norm), for every row
HeaderHits(rows) == [i \in 1..Len(rows) |-> LooksLikeHeader(rows[i])]

\* a scan that keeps going after a hit: returns the last matching row
find_header_row_last(table, readable, max_scan_rows) ==
    IF ~readable THEN NoRow
    ELSE LET i == LastTrue(HeaderHits(Preview(table, max_scan_rows)))
         IN  IF i = 0 THEN NoRow ELSE i - 1

\* a scan that reads the whole sheet (nrows is not passed)
find_header_row_nowindow(table, readable, max_scan_rows) ==
    IF ~readable THEN NoRow
    ELSE LET i == FirstTrue(HeaderHits(table))
         IN  IF i = 0 THEN NoRow ELSE i - 1

\* find_header_row (readable: whether pd.read_excel can parse the file):
\* for i in range(len(preview)): if any(...): return i; return None
find_header_row(table, readable, max_scan_rows) ==
    IF ~readable THEN NoRow
    ELSE LET i == FirstTrue(HeaderHits(Preview(table, max_scan_rows)))
         IN  IF i = 0 THEN NoRow ELSE i - 1

(***************************************************************************)
(* Column selection and record extraction (pick_columns,                   *)
(* load_weather_excel).  A column is named by its 1-based position in the  *)
(* header row; 0 stands for None.  NULL is the null of a measurement       *)
(* field (NaT, NaN, None).                                                 *)
(***************************************************************************)
NULL == -1

contains(s, sub) ==
    \E i \in 1..(Len(s) - Len(sub) + 1) : SubSeq(s, i, i + Len(sub) - 1) = sub

\* \w of the regular expression engine
IsWordChar(c) ==
    \/ IsUpperLetter(c) \/ IsLowerLetter(c)
    \/ IsUpperAccented(c) \/ IsLowerAccented(c)
    \/ c \in {"0","1","2","3","4","5","6","7","8","9","_","SUP2","SUP3","ORD_M"}

\* re.search(r"\btmax\b", s) is not None
has_word_tmax(s) ==
    \E i \in 1..(Len(s) - 3) :
        /\ SubSeq(s, i, i + 3) = <<"t","m","a","x">>
        /\ (i = 1 \/ ~IsWordChar(s[i - 1]))
        /\ (i + 3 = Len(s) \/ ~IsWordChar(s[i + 4]))

\* the labels pandas gives the columns of read_excel(header=header_row):
\* an empty cell is "Unnamed: j", a repeated label gets ".k"
ColumnLabels(row) ==
    [j \in 1..Len(row) |->
        IF isna(row[j])
        THEN Txt(<<"U","n","n","a","m","e","d",":"," ", Digits[j]>>)
        ELSE LET k == Cardinality({i \in 1..(j - 1) : row[i] = row[j]})
             IN  IF k > 0 /\ row[j].k = "s"
                 THEN Txt(row[j].s \o <<".", Digits[k + 1]>>)
                 ELSE row[j]]

\* norm_to_orig[normd]: the dict is filled left to right, so a later column
\* with the same normalized name replaces an earlier one
norm_to_orig(normalized, i) ==
    IF i = 0 THEN 0
    ELSE CHOOSE j \in 1..Len(normalized) :
            /\ normalized[j] = normalized[i]
            /\ \A m \in (j + 1)..Len(normalized) : normalized[m] # normalized[i]

IsDateName(c)   == startswith(c, fecha)
IsPrecipName(c) == contains(c, <<"p","r","e","c","i","p">>)
IsTempName_any(c) == contains(c, <<"t","e","m","p">>)
IsTempName(c)   == contains(c, <<"t","e","m","p","m","a","x">>) \/ has_word_tmax(c)

\* pick_columns; ok = FALSE is the ValueError "No date column found"
pick_columns(cols) ==
    LET normalized  == norm_columns(cols)
        date_norm   == FirstTrue([i \in 1..Len(normalized) |-> IsDateName(normalized[i])])
        precip_norm == FirstTrue([i \in 1..Len(normalized) |-> IsPrecipName(normalized[i])])
        temp_norm   == FirstTrue([i \in 1..Len(normalized) |-> IsTempName(normalized[i])])
    IN  IF date_norm = 0 \/ normalized[date_norm] = <<>>
        THEN [ok |-> FALSE, date_col |-> 0, precip_col |-> 0, temp_col |-> 0]
        ELSE [ok         |-> TRUE,
              date_col   |-> norm_to_orig(normalized, date_norm),
              precip_col |-> norm_to_orig(normalized, precip_norm),
              temp_col   |-> norm_to_orig(normalized, temp_norm)]

IsDigit(c) == c \in {"0","1","2","3","4","5","6","7","8","9"}
DigitValue(c) == IndexOf(Digits, c) - 1

\* a day-first date text "dd/01/2020" with dd in 01..09
IsDateText(s) ==
    /\ Len(s) = 10
    /\ s[1] = "0" /\ IsDigit(s[2]) /\ s[2] # "0"
    /\ SubSeq(s, 3, 10) = <<"/","0","1","/","2","0","2","0">>

\* pd.to_datetime(x, errors="coerce", dayfirst=True) of one cell: the day of
\* January 2020, 0 for the epoch (a number counts nanoseconds from it), NULL
\* for NaT
to_datetime(c) ==
    CASE c.k = "d" -> c.n
      [] c.k = "n" -> 0
      [] c.k = "s" /\ IsDateText(c.s) -> DigitValue(c.s[2])
      [] OTHER -> NULL

\* pd.to_numeric(x, errors="coerce") of one cell
to_numeric(c) ==
    CASE c.k = "n" -> c.n
      [] c.k = "s" /\ Len(c.s) = 1 /\ IsDigit(c.s[1]) -> DigitValue(c.s[1])
      [] OTHER -> NULL

HasDate(r) == r.date # NULL

\* load_weather_excel with a dropna over every column
extract_rows_dropna_all(table, hrow, cols) ==
    LET data == SubSeq(table, hrow + 2, Len(table))
        kept == {i \in 1..Len(data) :
                    /\ to_datetime(data[i][cols.date_col]) # NULL
                    /\ cols.precip_col # 0
                    /\ to_numeric(data[i][cols.precip_col]) # NULL
                    /\ cols.temp_col # 0
                    /\ to_numeric(data[i][cols.temp_col]) # NULL}
        Keep(r) == r.i \in kept
        out  == [i \in 1..Len(data) |->
                   [i             |-> i,
                    date          |-> to_datetime(data[i][cols.date_col]),
                    precipitation |-> IF cols.precip_col # 0
                                      THEN to_numeric(data[i][cols.precip_col])
                                      ELSE NULL,
                    temperature   |-> IF cols.temp_col # 0
                                      THEN to_numeric(data[i][cols.temp_col])
                                      ELSE NULL]]
        sel  == SelectSeq(out, Keep)
    IN  [k \in 1..Len(sel) |->
            [date |-> sel[k].date, precipitation |-> sel[k].precipitation,
             temperature |-> sel[k].temperature]]

\* the frame load_weather_excel builds from the rows below the header:
\* out = out.dropna(subset=["date"])
extract_rows(table, hrow, cols) ==
    LET data == SubSeq(table, hrow + 2, Len(table))
        out  == [i \in 1..Len(data) |->
                   [date          |-> to_datetime(data[i][cols.date_col]),
                    precipitation |-> IF cols.precip_col # 0
                                      THEN to_numeric(data[i][cols.precip_col])
                                      ELSE NULL,
                    temperature   |-> IF cols.temp_col # 0
                                      THEN to_numeric(data[i][cols.temp_col])
                                      ELSE NULL]]
    IN  SelectSeq(out, HasDate)

(***************************************************************************)
(* Rows the header locator is tried on.                                    *)
(***************************************************************************)
T_Fecha      == <<"F","e","c","h","a">>
T_FECHA_sp   == <<" ","F","E","C","H","A"," ">>
T_FechaAcc   == <<"F","E_ACUTE","C","H","A"," ","(","D",")">>
T_fe_cha     == <<"f","e"," ","c","h","a">>
T_LaFecha    == <<"l","a"," ","f","e","c","h","a">>
T_Clave      == <<"C","l","a","v","e",":"," ","A","B","C">>
T_Precip     == <<"P","r","e","c","i","p","(","m","m",")">>
T_TempMax    == <<"T","e","m","p","M","a","x">>

RowPool ==
    { <<Txt(T_Clave), NaN>>,                  \* preamble line
      <<NaN, NaN>>,                           \* blank line
      <<Txt(T_LaFecha), Txt(T_fe_cha)>>,      \* "fecha" not at the start / broken
      <<Date(1), Num(3)>>,                    \* a data row
      <<Txt(T_Fecha), Txt(T_Precip)>>,        \* header, marker in the first cell
      <<Txt(T_Precip), Txt(T_FECHA_sp)>>,     \* header, marker in a later cell
      <<Txt(T_FechaAcc), Txt(T_TempMax)>> }   \* header, accented upper case

HInit ==
    /\ hTable = <<>>
    /\ hScan = 0
    /\ hResult = NoRow
    /\ hPc = "build"

(***************************************************************************)
(* The files and catalogs the import script is run on.                     *)
(***************************************************************************)
N_cleaned_ABC == <<"c","l","e","a","n","e","d","_","A","B","C",".","x","l","s","x">>
N_cleaned_abc == <<"c","l","e","a","n","e","d","_","a","b","c",".","x","l","s","x">>
N_Cleaned_XYZ == <<"C","l","e","a","n","e","d","-","X","Y","Z",".","X","L","S","X">>
N_cleaned_DEF == <<"c","l","e","a","n","e","d","_","D","E","F",".","x","l","s","x">>
N_GHI         == <<"G","H","I",".","x","l","s","x">>
N_notes       == <<"n","o","t","e","s",".","t","x","t">>

T_bad    == <<"s","/","d">>
T_date5  == <<"0","5","/","0","1","/","2","0","2","0">>
T_TMin   == <<"T","M","i","n">>

BlankRow == <<NaN, NaN, NaN>>
HeaderRow == <<Txt(T_Fecha), Txt(T_Precip), Txt(T_TempMax)>>

\* preamble, header at row 1, three data rows of which two have a date
Sheet_ABC ==
    << <<Txt(T_Clave), NaN, NaN>>,
       HeaderRow,
       <<Date(1), Num(3), Num(5)>>,
       <<Txt(T_bad), Num(2), Num(1)>>,
       <<Txt(T_date5), Txt(T_bad), NaN>> >>

\* header at row 0 with the marker in the last cell, one data row
Sheet_abc ==
    << <<Txt(T_TMin), Txt(T_Precip), Txt(T_FECHA_sp)>>,
       <<Num(7), Num(4), Date(2)>> >>

\* the header lies below the scan window: rows 0..99 are blank, row 100 is it
Sheet_XYZ ==
    [i \in 1..102 |-> IF i <= 100 THEN BlankRow
                      ELSE IF i = 101 THEN HeaderRow
                      ELSE <<Date(3), Num(1), Num(1)>>]

\* a header, and no row with a date that parses
Sheet_DEF ==
    << BlankRow,
       BlankRow,
       <<Txt(T_FechaAcc), Txt(T_Precip), Txt(T_TempMax)>>,
       <<Txt(T_bad), Num(2), Num(1)>>,
       <<NaN, Num(2), Num(1)>> >>

FileNames == {N_cleaned_ABC, N_cleaned_abc, N_Cleaned_XYZ, N_cleaned_DEF,
              N_GHI, N_notes}

\* what is in the file of that name: readable is whether pd.read_excel can
\* parse it, table is the sheet it then yields
Content(name) ==
    CASE name = N_cleaned_ABC -> [readable |-> TRUE,  table |-> Sheet_ABC]
      [] name = N_cleaned_abc -> [readable |-> TRUE,  table |-> Sheet_abc]
      [] name = N_Cleaned_XYZ -> [readable |-> TRUE,  table |-> Sheet_XYZ]
      [] name = N_cleaned_DEF -> [readable |-> TRUE,  table |-> Sheet_DEF]
      [] OTHER                -> [readable |-> FALSE, table |-> <<>>]

NullAttr == "NULL"

AttrNames == {"name", "state", "municipality", "latitude", "longitude",
              "altitude", "cuenca", "region_hidrologica"}

Bundle(code, nm, st, mu, la, lo, al, cu, rh) ==
    [station_code |-> code, name |-> nm, state |-> st, municipality |-> mu,
     latitude |-> la, longitude |-> lo, altitude |-> al,
     cuenca |-> cu, region_hidrologica |-> rh]

C_abc == <<"a","b","c">>
C_ABC == <<"A","B","C">>

Meta_abc == Bundle(C_abc, "Manzanillo", "Colima", "Manzanillo",
                   "19.05", "-104.32", "3", "Armeria", "RH16")
Meta_ABC == Bundle(C_ABC, "Camotlan", "Jalisco", "Minatitlan",
                   "19.21", "-104.05", "420", "Marabasco", "RH15")
Meta_ABC_bad == Bundle(C_ABC, "Camotlan", "Jalisco", "Minatitlan",
                   "19d03m", "-104.05", "420", "Marabasco", "RH15")

Catalogs ==
    { <<>>, <<Meta_abc>>, <<Meta_ABC>>, <<Meta_abc, Meta_ABC>>, <<Meta_ABC_bad>> }

\* the texts PostgreSQL accepts for a DOUBLE PRECISION column
IsDouble(v) ==
    v \in {NullAttr, "19.05", "19.21", "-104.32", "-104.05", "3", "420"}

(***************************************************************************)
(* Listing the data folder.                                                *)
(***************************************************************************)
Ord(c) == IndexOf(CodePoints, c)

\* a < b for str
RECURSIVE StrLess(_, _)
StrLess(a, b) ==
    IF b = <<>> THEN FALSE
    ELSE IF a = <<>> THEN TRUE
    ELSE IF Head(a) = Head(b) THEN StrLess(Tail(a), Tail(b))
    ELSE Ord(Head(a)) < Ord(Head(b))

\* sorted(S)
RECURSIVE sorted(_)
sorted(S) ==
    IF S = {} THEN <<>>
    ELSE LET m == CHOOSE x \in S : \A y \in S \ {x} : StrLess(x, y)
         IN  <<m>> \o sorted(S \ {m})

endswith(s, suf) ==
    Len(s) >= Len(suf) /\ SubSeq(s, Len(s) - Len(suf) + 1, Len(s)) = suf

\* sorted([f for f in os.listdir(DATA_FOLDER) if f.lower().endswith(".xlsx")])
Listing(d) ==
    sorted({f \in d : endswith(lower(f), <<".","x","l","s","x">>)})

(***************************************************************************)
(* Station code and metadata lookup.                                       *)
(***************************************************************************)
\* os.path.splitext(file)[0]
splitext0(name) ==
    IF \E i \in 2..Len(name) : name[i] = "."
    THEN LET i == CHOOSE i \in 2..Len(name) :
                     name[i] = "." /\ \A j \in (i + 1)..Len(name) : name[j] # "."
         IN  SubSeq(name, 1, i - 1)
    ELSE name

\* re.sub(r"^cleaned[_-]?", "", s, flags=re.IGNORECASE)
strip_cleaned(s) ==
    IF startswith(lower(s), <<"c","l","e","a","n","e","d">>)
    THEN IF Len(s) >= 8 /\ s[8] \in {"_", "-"}
         THEN SubSeq(s, 9, Len(s))
         ELSE SubSeq(s, 8, Len(s))
    ELSE s

\* station_code of the main loop
station_code_of(file) == strip(strip_cleaned(splitext0(file)))

\* a comparison without .upper(): an exact, case-sensitive match
meta_rows_exact(meta, code) ==
    LET Match(r) == r.station_code = code
    IN  SelectSeq(meta, Match)

\* meta[meta["station_code"].astype(str).str.upper() == station_code.upper()]
meta_rows(meta, code) ==
    LET Match(r) == upper(r.station_code) = upper(code)
    IN  SelectSeq(meta, Match)

\* station_data of the main loop
enrich(meta, code) ==
    IF meta_rows(meta, code) # <<>>
    THEN meta_rows(meta, code)[1]
    ELSE Bundle(code, NullAttr, NullAttr, NullAttr, NullAttr, NullAttr,
                NullAttr, NullAttr, NullAttr)

(***************************************************************************)
(* The database.                                                           *)
(***************************************************************************)
\* no id: what .scalar() gives for an empty result (None); SERIAL ids start at 1
NoId == 0

Row(id, b) ==
    [id |-> id, station_code |-> b.station_code, name |-> b.name,
     state |-> b.state, municipality |-> b.municipality,
     latitude |-> b.latitude, longitude |-> b.longitude,
     altitude |-> b.altitude, cuenca |-> b.cuenca,
     region_hidrologica |-> b.region_hidrologica]

\* an upsert that leaves an existing row as it is (ON CONFLICT DO NOTHING)
upsert_keep(rows, seq, b) ==
    IF \E r \in rows : r.station_code = b.station_code
    THEN rows
    ELSE rows \cup {Row(seq, b)}

\* INSERT INTO stations ... ON CONFLICT (station_code) DO UPDATE SET ...
upsert(rows, seq, b) ==
    IF \E r \in rows : r.station_code = b.station_code
    THEN {IF r.station_code = b.station_code THEN Row(r.id, b) ELSE r : r \in rows}
    ELSE rows \cup {Row(seq, b)}

\* SELECT id FROM stations WHERE station_code = :code, then .scalar()
select_id(rows, code) ==
    IF \E r \in rows : r.station_code = code
    THEN (CHOOSE r \in rows : r.station_code = code).id
    ELSE NoId

\* df_final
df_final(sid, frame) ==
    SelectSeq([i \in 1..Len(frame) |->
                  [station_id    |-> sid,
                   date          |-> frame[i].date,
                   precipitation |-> frame[i].precipitation,
                   temperature   |-> frame[i].temperature]],
              HasDate)

(***************************************************************************)
(* The import script.                                                      *)
(***************************************************************************)
\* load_weather_excel(file_path) is called with max_scan_rows=100
MaxScanRows == 100

NoPick == [ok |-> FALSE, date_col |-> 0, precip_col |-> 0, temp_col |-> 0]
NoBundle == Bundle(<<>>, NullAttr, NullAttr, NullAttr, NullAttr, NullAttr,
                   NullAttr, NullAttr, NullAttr)

\* the functions checked on their own and the other scripts, before any call
AIdle ==
    /\ tText = <<>>
    /\ tOnce = <<>>
    /\ tTwice = <<>>
    /\ tPc = "build"
    /\ cLabel = <<>>
    /\ cN = 0
    /\ cCanon = <<>>
    /\ cPc = "build"
    /\ xTable = <<<<>>, <<>>, <<>>>>
    /\ xPicked = NoPick
    /\ xDf = <<>>
    /\ xPc = "build"
    /\ rExists = {}
    /\ rStep = 1
    /\ rPc = "idle"
    /\ rStarted = <<>>
    /\ rRuns = <<>>
    /\ rExit = NULL
    /\ dVariant = ""
    /\ dAttempt = 0
    /\ dPc = "idle"
    /\ dMsg = <<>>
    /\ dLast = [status |-> 0, html |-> FALSE, wrote |-> FALSE]
    /\ dGets = 0
    /\ dSaved = {}
    /\ dResults = <<>>
    /\ dOk = 0
    /\ dFail = 0

Info(m)    == [level |-> "INFO", msg |-> m]
Warning(m) == [level |-> "WARNING", msg |-> m]
Error(m)   == [level |-> "ERROR", msg |-> m]

ClearLocals ==
    /\ header_row' = NoRow
    /\ picked' = NoPick
    /\ df' = <<>>
    /\ station_code' = <<>>
    /\ station_data' = NoBundle
    /\ station_id' = NoId

\* what a run may find in the data folder
Folders == {d \in SUBSET FileNames : Cardinality(d) <= MaxFiles}

ScriptStart ==
    /\ pc = "connect"
    /\ files = <<>>
    /\ cur = 0
    /\ header_row = NoRow
    /\ picked = NoPick
    /\ df = <<>>
    /\ station_code = <<>>
    /\ station_data = NoBundle
    /\ station_id = NoId
    /\ log = <<>>
    /\ exc = ""
    /\ stage = <<>>

\* the schema was just created: both tables are empty
PInit ==
    /\ run = 1
    /\ dir = {}
    /\ metaCsv = <<>>
    /\ stations = {}
    /\ station_seq = 1
    /\ measurements = <<>>
    /\ ScriptStart
    /\ stations0 = {}
    /\ measurements0 = <<>>
    /\ upserted = {}
    /\ committed = NoBundle

\* TEST DATABASE CONNECTION: OperationalError -> SystemExit(1)
ConnectTest ==
    /\ UNCHANGED <<hvars, avars>>
    /\ pc = "connect"
    /\ \E ok \in BOOLEAN :
          IF ok THEN pc' = "meta" /\ exc' = exc
                ELSE pc' = "exit" /\ exc' = "SystemExit(1)"
    /\ UNCHANGED <<world, db, files, cur, locals, log, hist>>

\* LOAD METADATA, and the listing of the data folder: the script reads what
\* the catalog file and the folder hold at this moment
LoadMetadata ==
    /\ UNCHANGED <<hvars, avars>>
    /\ pc = "meta"
    /\ metaCsv' \in Catalogs
    /\ dir' \in Folders
    /\ files' = Listing(dir')
    /\ IF Listing(dir') = <<>>
       THEN pc' = "exit" /\ exc' = "SystemExit(0)" /\ cur' = cur
       ELSE pc' = "locate" /\ exc' = exc /\ cur' = 1
    /\ UNCHANGED <<run, db, locals, log, hist>>

\* continue, or the end of the loop body: on to the next file
NextFile ==
    /\ cur' = cur + 1
    /\ pc' = IF cur < Len(files) THEN "locate" ELSE "finish"
    /\ ClearLocals

\* df.empty in the main loop
SkipNoData(records, stages) ==
    /\ log' = records \o <<Warning("No valid data in")>>
    /\ stage' = stages \o <<"Skipped">>
    /\ NextFile

\* start of the loop body, and load_weather_excel up to the header row
Locate ==
    /\ UNCHANGED <<hvars, avars>>
    /\ pc = "locate"
    /\ LET c == Content(files[cur])
           h == find_header_row(c.table, c.readable, MaxScanRows)
           l == <<Info("Processing:")>>
                \o (IF c.readable THEN <<>> ELSE <<Error("Error reading preview")>>)
       IN  /\ stations0' = stations
           /\ measurements0' = measurements
           /\ committed' = NoBundle
           /\ IF h = NoRow
              THEN SkipNoData(l \o <<Warning("No header row found. Skipping.")>>,
                              <<"Located">>)
              ELSE /\ header_row' = h
                   /\ log' = l
                   /\ stage' = <<"Located">>
                   /\ pc' = "canon"
                   /\ UNCHANGED <<cur, picked, df, station_code, station_data,
                                  station_id>>
    /\ UNCHANGED <<world, db, files, exc, upserted>>

\* load_weather_excel: read with the detected header row, pick_columns
Canonicalize ==
    /\ UNCHANGED <<hvars, avars>>
    /\ pc = "canon"
    /\ LET cols == ColumnLabels(Content(files[cur]).table[header_row + 1])
           p == pick_columns(cols)
           l == log \o <<Info("Detected header row"), Info("Columns:")>>
       IN  IF ~p.ok
           THEN SkipNoData(l \o <<Warning("No date column found. Skipping.")>>,
                           stage \o <<"Canonicalized">>)
           ELSE /\ picked' = p
                /\ log' = l
                /\ stage' = stage \o <<"Canonicalized">>
                /\ pc' = "extract"
                /\ UNCHANGED <<cur, header_row, df, station_code, station_data,
                               station_id>>
    /\ UNCHANGED <<world, db, files, exc, stations0, measurements0, upserted, committed>>

\* load_weather_excel: the typed frame, dropna; then df.empty in the main loop
Extract ==
    /\ UNCHANGED <<hvars, avars>>
    /\ pc = "extract"
    /\ LET out == extract_rows(Content(files[cur]).table, header_row, picked)
       IN  IF out = <<>>
           THEN SkipNoData(log, stage \o <<"Extracted">>)
           ELSE /\ df' = out
                /\ stage' = stage \o <<"Extracted">>
                /\ pc' = "enrich"
                /\ UNCHANGED <<cur, header_row, picked, station_code,
                               station_data, station_id, log>>
    /\ UNCHANGED <<world, db, files, exc, stations0, measurements0, upserted, committed>>

\* station code from the file name, metadata lookup
Enrich ==
    /\ UNCHANGED <<hvars, avars>>
    /\ pc = "enrich"
    /\ station_code' = station_code_of(files[cur])
    /\ station_data' = enrich(metaCsv, station_code_of(files[cur]))
    /\ stage' = stage \o <<"Enriched">>
    /\ pc' = "upsert"
    /\ UNCHANGED <<world, db, files, cur, header_row, picked, df, station_id,
                   log, exc, stations0, measurements0, upserted, committed>>

\* one transaction around the upsert and the append: a failure undoes both
after_failure_one_transaction(before, now) == before

\* table stations after a statement failed: the block "with engine.begin()"
\* of the upsert committed when it was left, so a later failure (or a failure
\* of the upsert itself, rolled back on its own) leaves the table as it is now
after_failure(before, now) == now

\* an exception no handler catches ends the script; the transaction it was
\* raised in is rolled back
Raise(e) ==
    /\ pc' = "crashed"
    /\ exc' = e
    /\ stations' = after_failure(stations0, stations)
    /\ UNCHANGED <<world, station_seq, measurements, files, cur, locals, log, hist>>

\* with engine.begin() as conn: conn.execute(stmt, station_data)
Upsert ==
    /\ UNCHANGED <<hvars, avars>>
    /\ pc = "upsert"
    /\ \/ Raise("OperationalError")
       \/ /\ ~(IsDouble(station_data.latitude) /\ IsDouble(station_data.longitude)
                 /\ IsDouble(station_data.altitude))
          /\ Raise("DataError")
       \/ /\ IsDouble(station_data.latitude) /\ IsDouble(station_data.longitude)
          /\ IsDouble(station_data.altitude)
          /\ stations' = upsert(stations, station_seq, station_data)
          /\ station_seq' = station_seq + 1
          /\ upserted' = {u \in upserted : u.station_code # station_data.station_code}
                           \cup {station_data}
          /\ committed' = station_data
          /\ stage' = stage \o <<"Upserted">>
          /\ pc' = "resolve"
          /\ UNCHANGED <<world, measurements, files, cur, locals, log, exc,
                         stations0, measurements0>>

\* the id lookup without "if not station_id: continue"
ResolveIdNoCheck ==
    /\ UNCHANGED <<hvars, avars>>
    /\ pc = "resolve"
    /\ \/ Raise("OperationalError")
       \/ /\ station_id' = select_id(stations, station_code)
          /\ stage' = stage \o <<"Resolved">>
          /\ pc' = "append"
          /\ UNCHANGED <<cur, header_row, picked, df, station_code,
                         station_data, log>>
          /\ UNCHANGED <<world, db, files, exc, stations0, measurements0,
                         upserted, committed>>

\* with engine.connect() as conn: station_id = ...; if not station_id: continue
ResolveId ==
    /\ UNCHANGED <<hvars, avars>>
    /\ pc = "resolve"
    /\ \/ Raise("OperationalError")
       \/ /\ IF select_id(stations, station_code) = NoId
             THEN /\ log' = log \o <<Warning("Could not find ID for station. Skipping.")>>
                  /\ stage' = stage \o <<"Skipped">>
                  /\ NextFile
             ELSE /\ station_id' = select_id(stations, station_code)
                  /\ stage' = stage \o <<"Resolved">>
                  /\ pc' = "append"
                  /\ UNCHANGED <<cur, header_row, picked, df, station_code,
                                 station_data, log>>
          /\ UNCHANGED <<world, db, files, exc, stations0, measurements0, upserted, committed>>

\* df_final, df_final.to_sql("measurements", engine, if_exists="append")
AppendRows ==
    /\ UNCHANGED <<hvars, avars>>
    /\ pc = "append"
    /\ IF df_final(station_id, df) = <<>>
       THEN /\ log' = log \o <<Warning("No valid measurements for station")>>
            /\ stage' = stage \o <<"Skipped">>
            /\ NextFile
            /\ UNCHANGED <<world, db, files, exc, stations0, measurements0, upserted, committed>>
       ELSE \/ Raise("OperationalError")
            \/ /\ measurements' = measurements \o df_final(station_id, df)
               /\ log' = log \o <<Info("Imported records for station")>>
               /\ stage' = stage \o <<"Written">>
               /\ NextFile
               /\ UNCHANGED <<world, stations, station_seq, files, exc,
                              stations0, measurements0, upserted, committed>>

\* the closing log lines
Finish ==
    /\ UNCHANGED <<hvars, avars>>
    /\ pc = "finish"
    /\ pc' = "done"
    /\ UNCHANGED <<world, db, files, cur, locals, log, exc, hist>>

\* the script is run again, against the same database
StartRun ==
    /\ UNCHANGED <<hvars, avars>>
    /\ pc \in {"done", "exit", "crashed"}
    /\ run < MaxRuns
    /\ run' = run + 1
    /\ dir' = {}
    /\ metaCsv' = <<>>
    /\ pc' = "connect"
    /\ files' = <<>>
    /\ cur' = 0
    /\ ClearLocals
    /\ log' = <<>>
    /\ exc' = ""
    /\ stage' = <<>>
    /\ stations0' = stations
    /\ measurements0' = measurements
    /\ committed' = NoBundle
    /\ UNCHANGED <<db, upserted>>

Next ==
    \/ ConnectTest
    \/ LoadMetadata
    \/ Locate
    \/ Canonicalize
    \/ Extract
    \/ Enrich
    \/ Upsert
    \/ ResolveId
    \/ AppendRows
    \/ Finish
    \/ StartRun

Init == PInit /\ HInit /\ AIdle

Spec == Init /\ [][Next]_vars

(***************************************************************************)
(* What the claims speak of.                                               *)
(***************************************************************************)
LastStage == IF stage = <<>> THEN "" ELSE stage[Len(stage)]

\* the attribute bundle a row of stations holds
BundleOf(r) ==
    Bundle(r.station_code, r.name, r.state, r.municipality, r.latitude,
           r.longitude, r.altitude, r.cuenca, r.region_hidrologica)

\* the loop body of file number cur - 1 has just ended (continue, or its last
\* line); log and stage still tell of that file
JustFinished ==
    /\ pc \in {"locate", "finish", "done"}
    /\ cur >= 2
    /\ LastStage \in {"Written", "Skipped"}

FinishedFile == files[cur - 1]

\* the upsert of the current file committed and a later step of the same file
\* failed: an exception, or the id was not found
FailedAfterUpsert ==
    /\ committed # NoBundle
    /\ \/ pc = "crashed"
       \/ JustFinished /\ LastStage = "Skipped"

(***************************************************************************)
(* C1: after any sequence of imports, over any number of runs, table       *)
(* stations holds at most one row per station code, and the attributes of  *)
(* that row are those of the bundle most recently upserted for the code.   *)
(***************************************************************************)
C1_OneRowPerCodeLatestBundle ==
    /\ \A r1, r2 \in stations : r1.station_code = r2.station_code => r1 = r2
    /\ \A r \in stations : BundleOf(r) \in upserted
    /\ \A u \in upserted : \E r \in stations : r.station_code = u.station_code

\* the upsert of the current file overwrote the attributes of an existing row
C1_Witness ==
    /\ pc = "resolve"
    /\ \E r0 \in stations0 : \E r \in stations :
          /\ r.station_code = r0.station_code
          /\ r.id = r0.id
          /\ r.name # r0.name
          /\ r.cuenca # r0.cuenca

(***************************************************************************)
(* C2: for every processed file, the number of measurement rows written    *)
(* equals the number of rows of the file whose date parsed; no row with a  *)
(* null date is ever written.                                              *)
(***************************************************************************)
\* the rows of a file whose date parses, counted from the sheet
ParsedDates(name) ==
    LET c == Content(name)
        h == find_header_row(c.table, c.readable, MaxScanRows)
    IN  IF h = NoRow THEN 0
        ELSE LET p == pick_columns(ColumnLabels(c.table[h + 1]))
             IN  IF ~p.ok THEN 0
                 ELSE Cardinality({i \in (h + 2)..Len(c.table) :
                                      to_datetime(c.table[i][p.date_col]) # NULL})

C2_WrittenEqualsParsed ==
    /\ \A i \in 1..Len(measurements) : measurements[i].date # NULL
    /\ JustFinished =>
          Len(measurements) - Len(measurements0) = ParsedDates(FinishedFile)

(***************************************************************************)
(* C3 as stated: the upsert and the append of a file are one atomic unit;  *)
(* if the append or the id resolution fails after the upsert, table        *)
(* stations is as it was before the file.                                  *)
(***************************************************************************)
C3_OneAtomicUnit ==
    FailedAfterUpsert => stations = stations0 /\ measurements = measurements0

(***************************************************************************)
(* C3 amended: the upsert commits on its own before the id resolution and  *)
(* the append; if one of these fails, the upserted row stays, every other  *)
(* row of stations is as before the file, and no measurement row of the    *)
(* file is written.                                                        *)
(***************************************************************************)
C3_UpsertCommitsOnItsOwn ==
    FailedAfterUpsert =>
       /\ measurements = measurements0
       /\ \E r \in stations : BundleOf(r) = committed
       /\ \A r0 \in stations0 :
             r0.station_code # committed.station_code => r0 \in stations
       /\ \A r \in stations :
             r.station_code # committed.station_code => r \in stations0

\* the append failed after the upsert changed table stations
C3_Witness ==
    /\ pc = "crashed"
    /\ LastStage = "Resolved"
    /\ stations # stations0
    /\ stations0 # {}

(***************************************************************************)
(* C4: a measurement row is appended only after the upsert of its station  *)
(* committed and the station id resolved to a non-null value; every        *)
(* measurement row references the id of an existing station row.           *)
(***************************************************************************)
C4_AppendAfterUpsertAndId ==
    /\ [](\A i \in 1..Len(measurements) :
             \E r \in stations : r.id = measurements[i].station_id)
    /\ [][measurements' # measurements =>
             /\ pc = "append"
             /\ committed # NoBundle
             /\ station_id # NoId
             /\ \E r \in stations :
                   r.id = station_id /\ r.station_code = station_code
             /\ \A i \in (Len(measurements) + 1)..Len(measurements') :
                   measurements'[i].station_id = station_id]_vars

\* a file was written for a station row that existed before the file
C4_Witness ==
    /\ JustFinished
    /\ LastStage = "Written"
    /\ Len(measurements) > Len(measurements0)
    /\ Len(measurements0) > 0

(***************************************************************************)
(* C5: once the connection test succeeded, no failure while processing one *)
(* file aborts the batch: every file of the listing reaches a terminal     *)
(* outcome, and only a storage connectivity failure ends the run.          *)
(***************************************************************************)
C5_OnlyConnectivityAborts ==
    /\ pc = "crashed" => exc = "OperationalError"
    /\ pc = "done" => cur = Len(files) + 1

(***************************************************************************)
(* C6: a file goes Located, Canonicalized, Extracted, Enriched, Written    *)
(* and ends in exactly one of Written or Skipped; Skipped is entered only  *)
(* from Located, Canonicalized or Extracted, never from Enriched or later. *)
(***************************************************************************)
C6_SkippedOnlyBeforeEnriched ==
    /\ LastStage = "Skipped" =>
          /\ Len(stage) >= 2
          /\ stage[Len(stage) - 1] \in {"Located", "Canonicalized", "Extracted"}
    /\ LastStage = "Written" =>
          \E i \in 1..Len(stage) : stage[i] = "Enriched"

(***************************************************************************)
(* C7 as stated: a file with no "fecha" row in its first 100 rows is       *)
(* skipped with zero database writes and exactly one logged skip reason.   *)
(***************************************************************************)
\* read from the sheet: the file opens and none of its first 100 rows has a
\* cell whose normalized text starts with "fecha"
NoHeaderInFirst100(name) ==
    /\ Content(name).readable
    /\ \A i \in 1..Len(Content(name).table) :
          i <= 100 => ~LooksLikeHeader(Content(name).table[i])

IsReason(e) == e.level # "INFO"

\* the warnings and errors logged for the file
Reasons == SelectSeq(log, IsReason)

SkippedWithoutWrites ==
    /\ stage = <<"Located", "Skipped">>
    /\ stations = stations0
    /\ measurements = measurements0

C7_OneLoggedReason ==
    (JustFinished /\ NoHeaderInFirst100(FinishedFile)) =>
       SkippedWithoutWrites /\ Len(Reasons) = 1

(***************************************************************************)
(* C7 amended: such a file is skipped with zero database writes, and two   *)
(* warnings are logged for it: the reason "No header row found ...         *)
(* Skipping." by load_weather_excel, then "No valid data in ..." by the    *)
(* main loop.                                                              *)
(***************************************************************************)
C7_SkippedTwoWarnings ==
    (JustFinished /\ NoHeaderInFirst100(FinishedFile)) =>
       /\ SkippedWithoutWrites
       /\ Reasons = <<Warning("No header row found. Skipping."),
                      Warning("No valid data in")>>

\* the file whose header lies in row 100 was skipped, with rows in the tables
C7_Witness ==
    /\ JustFinished
    /\ FinishedFile = N_Cleaned_XYZ
    /\ stations # {}
    /\ measurements # <<>>

(***************************************************************************)
(* C9: the station code is upper-cased and trimmed for all lookups and     *)
(* keys: the code looked up in the catalog, the key the upsert stores and  *)
(* the code the id is resolved with are the same upper-case text, so two   *)
(* file names that differ only in letter case map to one station row.      *)
(***************************************************************************)
C9_CodeUpperCased ==
    /\ pc \in {"upsert", "resolve", "append"} =>
          /\ station_code = upper(strip(station_code))
          /\ station_data.station_code = station_code
    /\ \A r1, r2 \in stations :
          upper(r1.station_code) = upper(r2.station_code) => r1 = r2

(***************************************************************************)
(* C10: the enrichment looks the code of the file name up in the catalog   *)
(* by case-insensitive exact match and never fails: on a match the station *)
(* row is written with the attributes of the catalog, otherwise with the   *)
(* code of the file and every other attribute null.                        *)
(***************************************************************************)
CatalogHits ==
    {i \in 1..Len(metaCsv) : upper(metaCsv[i].station_code) = upper(station_code)}

ExpectedBundle ==
    IF CatalogHits # {}
    THEN metaCsv[CHOOSE i \in CatalogHits : \A j \in CatalogHits : i <= j]
    ELSE [a \in AttrNames \cup {"station_code"} |->
             IF a = "station_code" THEN station_code ELSE NullAttr]

C10_EnrichmentTotal ==
    /\ pc \in {"upsert", "resolve", "append"} => station_data = ExpectedBundle
    /\ pc \in {"resolve", "append"} =>
          \E r \in stations : BundleOf(r) = ExpectedBundle

\* a catalog entry found although its code differs in case from the file's
C10_Witness ==
    /\ pc = "resolve"
    /\ CatalogHits # {}
    /\ committed.station_code # station_code
    /\ \E r \in stations : BundleOf(r) = committed

(***************************************************************************)
(* The header locator on its own.                                          *)
(***************************************************************************)
\* the import script does not run
PIdle ==
    /\ run = 1
    /\ dir = {}
    /\ metaCsv = <<>>
    /\ stations = {}
    /\ station_seq = 1
    /\ measurements = <<>>
    /\ ScriptStart
    /\ stations0 = {}
    /\ measurements0 = <<>>
    /\ upserted = {}
    /\ committed = NoBundle

\* the caller builds a sheet, one row at a time
HAddRow ==
    /\ UNCHANGED <<pvars, avars>>
    /\ hPc = "build"
    /\ Len(hTable) < MaxRows
    /\ \E r \in RowPool : hTable' = Append(hTable, r)
    /\ UNCHANGED <<hScan, hResult, hPc>>

\* preview = find_header_row(file_path, max_scan_rows)
HCall ==
    /\ UNCHANGED <<pvars, avars>>
    /\ hPc = "build"
    /\ \E w \in 0..(MaxRows + 1) :
          /\ hScan' = w
          /\ hResult' = find_header_row(hTable, TRUE, w)
    /\ hPc' = "called"
    /\ UNCHANGED hTable

HNext == HAddRow \/ HCall

HeaderInit == HInit /\ PIdle /\ AIdle

SpecHeader == HeaderInit /\ [][HNext]_vars

(***************************************************************************)
(* C8: find_header_row returns the 0-based index of the first row of the   *)
(* scan window that has a cell whose normalized text starts with "fecha",  *)
(* None exactly when the window has no such row, and never a later         *)
(* matching row when an earlier one exists.                                *)
(***************************************************************************)
InWindow(i) == i >= 0 /\ i < Len(hTable) /\ i < hScan

C8_FirstHeaderInWindow ==
    hPc = "called" =>
       /\ (hResult = NoRow) <=>
             ~\E i \in 0..(Len(hTable) - 1) :
                 InWindow(i) /\ LooksLikeHeader(hTable[i + 1])
       /\ hResult # NoRow =>
             /\ InWindow(hResult)
             /\ LooksLikeHeader(hTable[hResult + 1])
             /\ \A i \in 0..(hResult - 1) : ~LooksLikeHeader(hTable[i + 1])

\* a sheet with two matching rows in the window, the first one not at row 0,
\* and a sheet whose only matching row lies beyond the window
C8_Witness ==
    /\ hPc = "called"
    /\ hResult = 1
    /\ Len(hTable) = 3
    /\ LooksLikeHeader(hTable[3])
    /\ ~LooksLikeHeader(hTable[1])

(***************************************************************************)
(* The cleaner's text normalizer (etl_final.py).                           *)
(***************************************************************************)
MaxText == 4          \* characters of a string handed to a normalizer

\* str.replace(a, b): the non-overlapping occurrences of a, from the left
RECURSIVE replace(_, _, _)
replace(s, a, b) ==
    IF Len(s) < Len(a) THEN s
    ELSE IF startswith(s, a)
         THEN b \o replace(SubSeq(s, Len(a) + 1, Len(s)), a, b)
         ELSE <<Head(s)>> \o replace(Tail(s), a, b)

\* the dictionary reps of norm, in insertion order
reps == <<
    << <<"A_CIRC">>, <<>> >>,
    << <<"ORD_M">>, <<"DEG">> >>,
    << <<"A_TILDE", "INV_EXCL">>, <<"a">> >>,
    << <<"A_TILDE", "COPY">>, <<"e">> >>,
    << <<"A_TILDE", "SHY">>, <<"i">> >>,
    << <<"A_TILDE", "SUP3">>, <<"o">> >>,
    << <<"A_TILDE", "ORD_M">>, <<"u">> >>,
    << <<"A_TILDE", "PLUS_MINUS">>, <<"n">> >>,
    << <<"a_acute">>, <<"a">> >>,
    << <<"e_acute">>, <<"e">> >>,
    << <<"i_acute">>, <<"i">> >>,
    << <<"o_acute">>, <<"o">> >>,
    << <<"u_acute">>, <<"u">> >>,
    << <<"n_tilde">>, <<"n">> >>,
    << <<"SUP2">>, <<"2">> >>,
    << <<"A_TILDE">>, <<>> >>,
    << <<"ZWSP">>, <<>> >> >>

\* for a, b in reps.items(): s = s.replace(a, b), from entry i on
RECURSIVE replace_reps(_, _)
replace_reps(s, i) ==
    IF i > Len(reps) THEN s
    ELSE replace_reps(replace(s, reps[i][1], reps[i][2]), i + 1)

\* norm that drops the characters outside ASCII instead of replacing them
norm_ascii(s) == lower(strip(SelectSeq(s, IsAscii)))

\* norm of etl_final.py
norm(s) == lower(strip(replace_reps(s, 1)))

(***************************************************************************)
(* The two text normalizers, each called on a string and then on its own   *)
(* result.                                                                 *)
(***************************************************************************)
\* the characters the strings are built from
TextAlphabet == {" ", "TAB", "a", "E", "E_ACUTE", "e_acute",
                 "A_TILDE", "COPY", "COMB"}

\* the caller builds a string, one character at a time
TAddChar ==
    /\ UNCHANGED <<hvars, pvars, cvars, xvars, rvars, dvars>>
    /\ tPc = "build"
    /\ Len(tText) < MaxText
    /\ \E c \in TextAlphabet : tText' = Append(tText, c)
    /\ UNCHANGED <<tOnce, tTwice, tPc>>

\* key = norm(c) of etl_final.py, then norm(key)
NCall ==
    /\ UNCHANGED <<hvars, pvars, cvars, xvars, rvars, dvars>>
    /\ \/ /\ tPc = "build"
          /\ tOnce' = norm(tText)
          /\ tPc' = "norm"
          /\ UNCHANGED <<tText, tTwice>>
       \/ /\ tPc = "norm"
          /\ tTwice' = norm(tOnce)
          /\ tPc' = "norm twice"
          /\ UNCHANGED <<tText, tOnce>>

\* norm_text(name) of the importer, then norm_text of the result
TCall ==
    /\ UNCHANGED <<hvars, pvars, cvars, xvars, rvars, dvars>>
    /\ \/ /\ tPc = "build"
          /\ tOnce' = norm_text(tText)
          /\ tPc' = "norm_text"
          /\ UNCHANGED <<tText, tTwice>>
       \/ /\ tPc = "norm_text"
          /\ tTwice' = norm_text(tOnce)
          /\ tPc' = "norm_text twice"
          /\ UNCHANGED <<tText, tOnce>>

TNext == TAddChar \/ NCall \/ TCall

\* nothing has been called yet, the database is empty
FnInit == HInit /\ PIdle /\ AIdle

SpecText == FnInit /\ [][TNext]_vars

(***************************************************************************)
(* C11: norm is idempotent: for every string s, norm(norm(s)) = norm(s).   *)
(***************************************************************************)
C11_NormIdempotent == tPc = "norm twice" => tTwice = tOnce

(***************************************************************************)
(* C12: norm_text is idempotent, norm_text(norm_text(s)) = norm_text(s),   *)
(* and its result neither starts nor ends with whitespace and has no two   *)
(* whitespace characters in a row.                                         *)
(***************************************************************************)
NoWhitespaceRun(s) ==
    /\ s # <<>> => ~IsSpace(s[1]) /\ ~IsSpace(s[Len(s)])
    /\ \A i \in 1..(Len(s) - 1) : ~(IsSpace(s[i]) /\ IsSpace(s[i + 1]))

C12_NormTextIdempotentTrimmed ==
    /\ tPc \in {"norm_text", "norm_text twice"} => NoWhitespaceRun(tOnce)
    /\ tPc = "norm_text twice" => tTwice = tOnce

\* an accented capital, then a run of a tab and a space inside the text
C12_Witness ==
    /\ tPc = "norm_text twice"
    /\ tText = <<"E_ACUTE", "TAB", " ", "a">>
    /\ tOnce = <<"e", " ", "a">>

(***************************************************************************)
(* The cleaner's column canonicalizer (etl_final.py).                      *)
(***************************************************************************)
MaxParts == 3         \* fragments a column label is put together from

\* REQUIRED: the canonical column names
REQUIRED == <<
    <<"E","s","t","a","c","i","o","n">>,
    <<"F","e","c","h","a">>,
    <<"P","r","e","c","i","p","i","t","a","c","i","o","n","(","m","m",")">>,
    <<"T","e","m","p","M","a","x","(","DEG","C",")">>,
    <<"T","e","m","p","M","i","n","(","DEG","C",")">>,
    <<"T","e","m","p","A","m","b","(","DEG","C",")">>,
    <<"E","v","a","p","o","r","a","c","i","o","n","(","m","m",")">>,
    <<"P","r","e","s"," ","B","a","r","o","m","e","t","r","i","c","(","g","/","c","m","2",")">>,
    <<"H","u","m"," ","R","e","l","a","t","i","v","a","(","%",")">> >>

\* HEADER_MAP: the pairs (key, value) of the dictionary, a value given by its
\* position in REQUIRED
HEADER_MAP == <<
    << <<"e","s","t","a","c","i","o","n">>,
       REQUIRED[1] >>,    \* Estacion
    << <<"e","s","t","a","c","i","o_acute","n">>,
       REQUIRED[1] >>,    \* Estacion
    << <<"f","e","c","h","a">>,
       REQUIRED[2] >>,    \* Fecha
    << <<"p","r","e","c","i","p","i","t","a","c","i","o","n","(","m","m",")">>,
       REQUIRED[3] >>,    \* Precipitacion(mm)
    << <<"p","r","e","c","i","p","i","t","a","c","i","o","n"," ","(","m","m",")">>,
       REQUIRED[3] >>,    \* Precipitacion(mm)
    << <<"p","r","e","c","i","p","i","t","a","c","i","A_TILDE","SUP3","n","(","m","m",")">>,
       REQUIRED[3] >>,    \* Precipitacion(mm)
    << <<"t","e","m","p","m","a","x","(","DEG","c",")">>,
       REQUIRED[4] >>,    \* TempMax(deg C)
    << <<"t","e","m","p","e","r","a","t","u","r","a"," ","m","a","x","i","m","a","(","DEG","c",")">>,
       REQUIRED[4] >>,    \* TempMax(deg C)
    << <<"t","e","m","p","m","i","n","(","DEG","c",")">>,
       REQUIRED[5] >>,    \* TempMin(deg C)
    << <<"t","e","m","p","e","r","a","t","u","r","a"," ","m","i","n","i","m","a","(","DEG","c",")">>,
       REQUIRED[5] >>,    \* TempMin(deg C)
    << <<"t","e","m","p","a","m","b","(","DEG","c",")">>,
       REQUIRED[6] >>,    \* TempAmb(deg C)
    << <<"t","e","m","p","e","r","a","t","u","r","a"," ","m","e","d","i","a","(","DEG","c",")">>,
       REQUIRED[6] >>,    \* TempAmb(deg C)
    << <<"e","v","a","p","o","r","a","c","i","o","n","(","m","m",")">>,
       REQUIRED[7] >>,    \* Evaporacion(mm)
    << <<"e","v","a","p","o","r","a","c","i","o_acute","n","(","m","m",")">>,
       REQUIRED[7] >>,    \* Evaporacion(mm)
    << <<"p","r","e","s"," ","b","a","r","o","m","e","t","r","i","c","(","g","/","c","m","2",")">>,
       REQUIRED[8] >>,    \* Pres Barometric(g/cm2)
    << <<"p","r","e","s"," ","b","a","r","o","m","e","t","r","i","c","(","g","/","c","m","SUP2",")">>,
       REQUIRED[8] >>,    \* Pres Barometric(g/cm2)
    << <<"h","u","m"," ","r","e","l","a","t","i","v","a","(","%",")">>,
       REQUIRED[9] >>,    \* Hum Relativa(%)
    << <<"h","u","m","e","d","a","d"," ","r","e","l","a","t","i","v","a","(","%",")">>,
       REQUIRED[9] >> >>    \* Hum Relativa(%)

\* canonicalize_headers: key = norm(c), then the two replacements of line 78
header_key(c) ==
    replace(replace(norm(c), <<"m","a_acute","x","i","m","a">>,
                             <<"m","a","x","i","m","a">>),
            <<"m","i_acute","n","i","m","a">>, <<"m","i","n","i","m","a">>)

\* canonicalize_headers with the min rule tried before the max rule
canonicalize_headers_min_first(c) ==
    LET key == header_key(c)
        has(sub) == contains(key, sub)
        hit == {i \in 1..Len(HEADER_MAP) : HEADER_MAP[i][1] = key}
    IN  IF hit # {} THEN HEADER_MAP[CHOOSE i \in hit : TRUE][2]
        ELSE IF has(<<"m","i","n">>) /\ has(<<"t","e","m","p">>) THEN REQUIRED[5]
        ELSE IF has(<<"m","a","x">>) /\ has(<<"t","e","m","p">>) THEN REQUIRED[4]
        ELSE IF (has(<<"m","e","d","i","a">>) \/ has(<<"a","m","b">>)) /\ has(<<"t","e","m","p">>)
             THEN REQUIRED[6]
        ELSE IF has(<<"p","r","e","c","i","p">>) THEN REQUIRED[3]
        ELSE IF has(<<"e","v","a","p","o","r","a">>) THEN REQUIRED[7]
        ELSE IF has(<<"h","u","m">>) /\ has(<<"%">>) THEN REQUIRED[9]
        ELSE IF has(<<"p","r","e","s">>)
                /\ (has(<<"c","m","2">>) \/ has(<<"c","m","SUP2">>)
                    \/ has(<<"b","a","r","o">>))
             THEN REQUIRED[8]
        ELSE IF has(<<"f","e","c","h","a">>) THEN REQUIRED[2]
        ELSE IF has(<<"e","s","t","a","c","i","o","n">>)
                \/ has(<<"e","s","t","a","c","i","o_acute","n">>)
             THEN REQUIRED[1]
        ELSE c

\* canonicalize_headers, for one column label c: the value of new_cols[c]
canonicalize_headers(c) ==
    LET key == header_key(c)
        has(sub) == contains(key, sub)
        hit == {i \in 1..Len(HEADER_MAP) : HEADER_MAP[i][1] = key}
    IN  IF hit # {} THEN HEADER_MAP[CHOOSE i \in hit : TRUE][2]
        ELSE IF has(<<"m","a","x">>) /\ has(<<"t","e","m","p">>) THEN REQUIRED[4]
        ELSE IF has(<<"m","i","n">>) /\ has(<<"t","e","m","p">>) THEN REQUIRED[5]
        ELSE IF (has(<<"m","e","d","i","a">>) \/ has(<<"a","m","b">>)) /\ has(<<"t","e","m","p">>)
             THEN REQUIRED[6]
        ELSE IF has(<<"p","r","e","c","i","p">>) THEN REQUIRED[3]
        ELSE IF has(<<"e","v","a","p","o","r","a">>) THEN REQUIRED[7]
        ELSE IF has(<<"h","u","m">>) /\ has(<<"%">>) THEN REQUIRED[9]
        ELSE IF has(<<"p","r","e","s">>)
                /\ (has(<<"c","m","2">>) \/ has(<<"c","m","SUP2">>)
                    \/ has(<<"b","a","r","o">>))
             THEN REQUIRED[8]
        ELSE IF has(<<"f","e","c","h","a">>) THEN REQUIRED[2]
        ELSE IF has(<<"e","s","t","a","c","i","o","n">>)
                \/ has(<<"e","s","t","a","c","i","o_acute","n">>)
             THEN REQUIRED[1]
        ELSE c

\* the fragments a column label is put together from
LabelParts == {<<"t","e","m","p">>, <<"m","a","x">>, <<"m","i","n">>,
               <<"a","m","b">>, <<"p","r","e","c","i","p">>,
               <<"e","v","a","p","o","r","a">>, <<"h","u","m">>, <<"%">>,
               <<"p","r","e","s">>, <<"b","a","r","o">>, <<"F","e","c","h","a">>,
               <<"E","S","T","A","C","I","O_ACUTE","N">>, <<" ","X">>}

\* a column labelled with a spelling the dictionary lists
CPickKey ==
    /\ UNCHANGED <<hvars, pvars, tvars, xvars, rvars, dvars>>
    /\ cPc = "build"
    /\ cN = 0
    /\ \E i \in 1..Len(HEADER_MAP) : cLabel' = HEADER_MAP[i][1]
    /\ cN' = MaxParts
    /\ UNCHANGED <<cCanon, cPc>>

\* a column label put together from fragments
CAddPart ==
    /\ UNCHANGED <<hvars, pvars, tvars, xvars, rvars, dvars>>
    /\ cPc = "build"
    /\ cN < MaxParts
    /\ \E part \in LabelParts : cLabel' = cLabel \o part
    /\ cN' = cN + 1
    /\ UNCHANGED <<cCanon, cPc>>

\* new_cols[c] = canon
CCall ==
    /\ UNCHANGED <<hvars, pvars, tvars, xvars, rvars, dvars>>
    /\ cPc = "build"
    /\ cCanon' = canonicalize_headers(cLabel)
    /\ cPc' = "called"
    /\ UNCHANGED <<cLabel, cN>>

CNext == CPickKey \/ CAddPart \/ CCall

SpecCanon == FnInit /\ [][CNext]_vars

(***************************************************************************)
(* C13: a column labelled with a key of HEADER_MAP is renamed to the value *)
(* the dictionary gives for that key.                                      *)
(***************************************************************************)
C13_AliasKeysCanonical ==
    cPc = "called" =>
        \A i \in 1..Len(HEADER_MAP) :
            cLabel = HEADER_MAP[i][1] => cCanon = HEADER_MAP[i][2]

\* the mis-encoded spelling of "precipitación(mm)"
C13_Witness ==
    /\ cPc = "called"
    /\ cLabel = HEADER_MAP[6][1]
    /\ contains(cLabel, <<"A_TILDE", "SUP3">>)
    /\ cCanon = REQUIRED[3]

(***************************************************************************)
(* C14: the new name of a column is a function of its label alone: the     *)
(* dictionary's value when the key is in the dictionary; otherwise the     *)
(* target of the first rule the key satisfies in the order max, min,       *)
(* mean/ambient temperature, precipitation, evaporation, humidity with a   *)
(* percent sign, barometric pressure, date, station; the label itself when *)
(* the key satisfies no rule.                                              *)
(***************************************************************************)
C14_Rules(key) ==
    LET has(sub) == contains(key, sub)
        temp == has(<<"t","e","m","p">>)
    IN  << has(<<"m","a","x">>) /\ temp,
           has(<<"m","i","n">>) /\ temp,
           (has(<<"m","e","d","i","a">>) \/ has(<<"a","m","b">>)) /\ temp,
           has(<<"p","r","e","c","i","p">>),
           has(<<"e","v","a","p","o","r","a">>),
           has(<<"h","u","m">>) /\ has(<<"%">>),
           has(<<"p","r","e","s">>)
              /\ (has(<<"c","m","2">>) \/ has(<<"c","m","SUP2">>)
                  \/ has(<<"b","a","r","o">>)),
           has(<<"f","e","c","h","a">>),
           has(<<"e","s","t","a","c","i","o","n">>)
              \/ has(<<"e","s","t","a","c","i","o_acute","n">>) >>

\* the position in REQUIRED of the target of each rule
C14_Targets == <<4, 5, 6, 3, 7, 9, 8, 2, 1>>

C14_FirstMatchWins ==
    cPc = "called" =>
        LET key   == header_key(cLabel)
            hit   == {i \in 1..Len(HEADER_MAP) : HEADER_MAP[i][1] = key}
            first == FirstTrue(C14_Rules(key))
        IN  /\ hit # {} => \A i \in hit : cCanon = HEADER_MAP[i][2]
            /\ hit = {} /\ first # 0 => cCanon = REQUIRED[C14_Targets[first]]
            /\ hit = {} /\ first = 0 => cCanon = cLabel

\* a label that satisfies the min rule and the max rule, min written first
C14_Witness ==
    /\ cPc = "called"
    /\ cLabel = <<"m","i","n","t","e","m","p","m","a","x">>
    /\ cCanon = REQUIRED[4]

(***************************************************************************)
(* The importer's load_weather_excel from pick_columns on, on a sheet of    *)
(* its own: a header row and two data rows, put together one column at a   *)
(* time.  The first column is the date column "Fecha" of a cleaned file,   *)
(* so the header row is row 0 of the sheet (what find_header_row returns   *)
(* for it).                                                                *)
(***************************************************************************)
MaxCols == 3          \* columns of the sheet

\* the labels of the header row after the first
XLabels == {T_Fecha, <<"F","E","C","H","A">>, T_Precip, T_TempMax,
            <<"T","e","m","p","M","i","n">>, <<"T","e","m","p","A","m","b">>}

\* a cell of column j: a date under a date label, a number elsewhere; or a
\* text that is neither
XCell(label, j, good) ==
    IF ~good THEN Txt(T_bad)
    ELSE IF IsDateName(norm_text(label)) THEN Date(j) ELSE Num(j)

\* one more column in the sheet
XAddCol ==
    /\ UNCHANGED <<hvars, pvars, tvars, cvars, rvars, dvars>>
    /\ xPc = "build"
    /\ Len(xTable[1]) < MaxCols
    /\ \E label \in (IF xTable[1] = <<>> THEN {T_Fecha} ELSE XLabels),
          g1 \in BOOLEAN, g2 \in BOOLEAN :
          LET j == Len(xTable[1]) + 1
          IN  xTable' = << Append(xTable[1], Txt(label)),
                           Append(xTable[2], XCell(label, j, g1)),
                           Append(xTable[3], XCell(label, j, g2)) >>
    /\ UNCHANGED <<xPicked, xDf, xPc>>

\* load_weather_excel once df is read with header_row 0: pick_columns, the
\* typed frame, dropna
XCall ==
    /\ UNCHANGED <<hvars, pvars, tvars, cvars, rvars, dvars>>
    /\ xPc = "build"
    /\ xTable[1] # <<>>
    /\ LET p == pick_columns(ColumnLabels(xTable[1]))
       IN  /\ xPicked' = p
           /\ xDf' = IF p.ok THEN extract_rows(xTable, 0, p) ELSE <<>>
    /\ xPc' = "called"
    /\ UNCHANGED xTable

XNext == XAddCol \/ XCall

SpecExtract == FnInit /\ [][XNext]_vars

\* the normalized column names of the sheet, and the data rows (as rows of
\* xTable) whose cell in the chosen date column parses, top to bottom
XNorm == norm_columns(ColumnLabels(xTable[1]))

XDateParses(i) == to_datetime(xTable[i][xPicked.date_col]) # NULL

XKept == SelectSeq(<<2, 3>>, XDateParses)

\* the value of one field of data row i, taken from column col (0: no column)
XField(i, col) == IF col = 0 THEN NULL ELSE to_numeric(xTable[i][col])

(***************************************************************************)
(* C15: when several columns resolve to the date, to precipitation or to   *)
(* the temperature, the values of the leftmost of them are the ones in the *)
(* returned frame.                                                         *)
(***************************************************************************)
C15_LeftmostColumnUsed ==
    xPc = "called" /\ xPicked.ok =>
        LET leftmost ==
              [ok         |-> TRUE,
               date_col   |-> FirstTrue([j \in 1..Len(XNorm) |-> IsDateName(XNorm[j])]),
               precip_col |-> FirstTrue([j \in 1..Len(XNorm) |-> IsPrecipName(XNorm[j])]),
               temp_col   |-> FirstTrue([j \in 1..Len(XNorm) |-> IsTempName(XNorm[j])])]
        IN  xDf = extract_rows(xTable, 0, leftmost)

(***************************************************************************)
(* C16: the returned frame has exactly the data rows whose date parses, in *)
(* their order; a kept row has null for precipitation or temperature when  *)
(* the cell does not parse or the column is absent, so the number of rows  *)
(* depends on the date column alone.                                       *)
(***************************************************************************)
C16_DroppedIffDateFails ==
    xPc = "called" /\ xPicked.ok =>
        /\ Len(xDf) = Len(XKept)
        /\ \A k \in 1..Len(XKept) :
              /\ k <= Len(xDf)
              /\ xDf[k].date = to_datetime(xTable[XKept[k]][xPicked.date_col])
              /\ xDf[k].precipitation = XField(XKept[k], xPicked.precip_col)
              /\ xDf[k].temperature = XField(XKept[k], xPicked.temp_col)

\* the first data row is dropped for its date; the second is kept although
\* its temperature does not parse and the sheet has no precipitation column
C16_Witness ==
    /\ xPc = "called"
    /\ xPicked.ok
    /\ XKept = <<3>>
    /\ xPicked.precip_col = 0
    /\ xPicked.temp_col # 0
    /\ to_numeric(xTable[3][xPicked.temp_col]) = NULL
    /\ xDf = <<[date |-> to_datetime(xTable[3][xPicked.date_col]),
                precipitation |-> NULL, temperature |-> NULL]>>

(***************************************************************************)
(* C17: when the header has a max-temperature column, the temperature of   *)
(* every returned row is the value of a max-temperature column, wherever   *)
(* the min and mean/ambient columns stand; when it has none, the           *)
(* temperature is null: a min or mean column is never used.                *)
(***************************************************************************)
C17_MaxCols ==
    {j \in 1..Len(XNorm) : contains(XNorm[j], <<"t","e","m","p","m","a","x">>)}

C17_MaxTemperatureUsed ==
    xPc = "called" /\ xPicked.ok =>
        /\ C17_MaxCols # {} => xPicked.temp_col \in C17_MaxCols
        /\ C17_MaxCols = {} => xPicked.temp_col = 0
        /\ \A k \in 1..Len(xDf) :
              xDf[k].temperature = XField(XKept[k], xPicked.temp_col)

\* the min column stands left of the max column
C17_Witness ==
    /\ xPc = "called"
    /\ xPicked.ok
    /\ Len(XNorm) = 3
    /\ XNorm[2] = <<"t","e","m","p","m","i","n">>
    /\ XNorm[3] = <<"t","e","m","p","m","a","x">>
    /\ xPicked.temp_col = 3
    /\ Len(xDf) = 2
    /\ xDf[1].temperature = XField(2, 3)
    /\ xDf[1].temperature # NULL
    /\ xDf[1].temperature # XField(2, 2)

(***************************************************************************)
(* run_pipeline.py.                                                        *)
(***************************************************************************)
\* steps: the script of each step
steps == <<"all_files_weather_multi_thread_colima_only.py", "cleaner.py",
           "db_creator.py", "db_inport_from_cleaned_data.py">>

\* main begins; the scripts present in BASE_DIR are what they are
RStart ==
    /\ UNCHANGED <<hvars, pvars, tvars, cvars, xvars, dvars>>
    /\ rPc = "idle"
    /\ rExists' \in SUBSET {steps[k] : k \in 1..Len(steps)}
    /\ rPc' = "check"
    /\ UNCHANGED <<rStep, rStarted, rRuns, rExit>>

\* run_script up to subprocess.run: sys.exit(1) when the script is missing
RCheck ==
    /\ UNCHANGED <<hvars, pvars, tvars, cvars, xvars, dvars>>
    /\ rPc = "check"
    /\ IF steps[rStep] \notin rExists
       THEN /\ rExit' = 1
            /\ rPc' = "exited"
            /\ UNCHANGED rStarted
       ELSE /\ rStarted' = Append(rStarted, steps[rStep])
            /\ rPc' = "running"
            /\ UNCHANGED rExit
    /\ UNCHANGED <<rExists, rStep, rRuns>>

\* run_script that goes on whatever the return code is
RReturn_ignore_returncode ==
    /\ UNCHANGED <<hvars, pvars, tvars, cvars, xvars, dvars>>
    /\ rPc = "running"
    /\ \E rc \in {-9, 0, 1, 2, 255} : rRuns' = Append(rRuns, rc)
    /\ IF rStep < Len(steps)
       THEN /\ rStep' = rStep + 1
            /\ rPc' = "check"
            /\ UNCHANGED rExit
       ELSE /\ rExit' = 0
            /\ rPc' = "done"
            /\ UNCHANGED rStep
    /\ UNCHANGED <<rExists, rStarted>>

\* the subprocess ends: sys.exit(result.returncode) unless it is 0 (a negative
\* return code, the number of a signal, leaves as its value modulo 256); after
\* the last step main returns
RReturn ==
    /\ UNCHANGED <<hvars, pvars, tvars, cvars, xvars, dvars>>
    /\ rPc = "running"
    /\ \E rc \in {-9, 0, 1, 2, 255} :
          /\ rRuns' = Append(rRuns, rc)
          /\ IF rc # 0
             THEN /\ rExit' = rc % 256
                  /\ rPc' = "exited"
                  /\ UNCHANGED rStep
             ELSE IF rStep < Len(steps)
             THEN /\ rStep' = rStep + 1
                  /\ rPc' = "check"
                  /\ UNCHANGED rExit
             ELSE /\ rExit' = 0
                  /\ rPc' = "done"
                  /\ UNCHANGED rStep
    /\ UNCHANGED <<rExists, rStarted>>

RNext == RStart \/ RCheck \/ RReturn

SpecRunner == FnInit /\ [][RNext]_vars

(***************************************************************************)
(* C18: the subprocesses are started in the order of steps, one at a time, *)
(* the next only after the one before has ended; a step is started only if *)
(* its script and every earlier script existed and every earlier           *)
(* subprocess returned 0; after the first missing script or non-zero       *)
(* return code run_pipeline has exited with a non-zero code and no later   *)
(* step was started; it ends with code 0 only after all four returned 0.   *)
(***************************************************************************)
C18_StepsInOrderStopAtFirstFailure ==
    /\ rStarted = SubSeq(steps, 1, Len(rStarted))
    /\ Len(rRuns) = IF rPc = "running" THEN Len(rStarted) - 1 ELSE Len(rStarted)
    /\ \A k \in 1..Len(rStarted) :
          /\ steps[k] \in rExists
          /\ \A j \in 1..(k - 1) : rRuns[j] = 0
    /\ (\E k \in 1..Len(rRuns) : rRuns[k] # 0) =>
          /\ rPc = "exited"
          /\ rRuns[Len(rRuns)] # 0
    /\ rPc \in {"running", "done"} => \A k \in 1..rStep : steps[k] \in rExists
    /\ rPc = "exited" =>
          /\ rExit \in 1..255
          /\ Len(rStarted) <= rStep
          /\ steps[rStep] \notin rExists \/ rRuns[rStep] # 0
    /\ rPc = "done" =>
          /\ rExit = 0
          /\ rRuns = <<0, 0, 0, 0>>
    /\ rPc \in {"idle", "check", "running"} => rExit = NULL

\* all four scripts exist, the second one returns 2
C18_Witness ==
    /\ rPc = "exited"
    /\ Cardinality(rExists) = 4
    /\ rStarted = SubSeq(steps, 1, 2)
    /\ rRuns = <<0, 2>>
    /\ rExit = 2

(***************************************************************************)
(* The downloaders: download_station_csv of the three scripts, and the     *)
(* loop and summary of main of weather_data_downloader.py.                 *)
(***************************************************************************)
MaxStations == 2      \* stations of one run

\* max_retries / MAX_RETRIES of each script
max_retries(v) == IF v = "hidro" THEN 3 ELSE 5

\* the messages download_station_csv returns, for the station numbered i
\* (its clave is the digit i); e is the text of the exception
status_message(v, kind, i) ==
    LET clave == <<Digits[i + 1]>>
        csv   == clave \o <<".","c","s","v">>
        n     == <<Digits[max_retries(v) + 1]>>
        lead  == IF v = "colima" THEN <<" ">> ELSE <<>>
    IN  CASE kind = "saved"     -> lead \o <<"S","a","v","e","d"," ">> \o csv
          [] kind = "not found" -> lead \o <<"N","o","t"," ","f","o","u","n","d",":"," ">> \o csv
          [] kind = "html"      -> csv \o <<" ","r","e","t","u","r","n","e","d"," ","H","T","M","L"," ","p","a","g","e"," ","i","n","s","t","e","a","d"," ","o","f"," ","C","S","V"," ","(","p","r","o","b","a","b","l","y"," ","m","i","s","s","i","n","g",")",".">>
          [] kind = "retries"   ->
                IF v = "hidro"
                THEN <<"F","a","i","l","e","d"," ">> \o clave \o <<" ","(","N","e","t","w","o","r","k"," ","E","r","r","o","r",")",":"," ","t","i","m","e","d"," ","o","u","t">>
                ELSE lead \o <<"F","a","i","l","e","d"," ">> \o clave \o <<" ","a","f","t","e","r"," ">> \o n
                     \o <<" ","r","e","t","r","i","e","s">> \o (IF v = "weather" THEN <<".">> ELSE <<>>)
          [] kind = "file"      -> <<"F","a","i","l","e","d"," ">> \o clave \o <<" ","(","F","i","l","e"," ","E","r","r","o","r",")",":"," ","P","e","r","m","i","s","s","i","o","n"," ","d","e","n","i","e","d">>

\* main calls download_station_csv for the next station; the first call
\* settles which of the three scripts is running
DCall ==
    /\ UNCHANGED <<hvars, pvars, tvars, cvars, xvars, rvars>>
    /\ dPc \in {"idle", "next"}
    /\ Len(dResults) < MaxStations
    /\ IF dPc = "idle"
       THEN dVariant' \in {"colima", "weather", "hidro"}
       ELSE UNCHANGED dVariant
    /\ dAttempt' = 1
    /\ dGets' = 0
    /\ dLast' = [status |-> 0, html |-> FALSE, wrote |-> FALSE]
    /\ dMsg' = <<>>
    /\ dPc' = "loop"
    /\ UNCHANGED <<dSaved, dResults, dOk, dFail>>

\* one pass of "for attempt in range(1, MAX_RETRIES + 1)": the request (status
\* 0 stands for a RequestException of session.get), the checks of the
\* response, the write; then return, raise, or the next attempt
DAttempt ==
    /\ UNCHANGED <<hvars, pvars, tvars, cvars, xvars, rvars>>
    /\ dPc = "loop"
    /\ dAttempt <= max_retries(dVariant)
    /\ dGets' = dGets + 1
    /\ \E status \in {0, 200, 403, 404, 500}, html \in BOOLEAN, disk_ok \in BOOLEAN :
          LET i       == Len(dResults) + 1
              isLast  == dAttempt = max_retries(dVariant)
              Return(kind) ==
                  /\ dMsg' = status_message(dVariant, kind, i)
                  /\ dPc' = "returned"
                  /\ UNCHANGED dAttempt
              Retry ==
                  IF isLast
                  THEN Return("retries")
                  ELSE /\ dAttempt' = dAttempt + 1
                       /\ UNCHANGED <<dMsg, dPc>>
              writes  == /\ status = 200
                         /\ ~(dVariant = "weather" /\ html)
          IN  /\ dLast' = [status |-> status, html |-> status # 0 /\ html,
                           wrote |-> writes /\ disk_ok]
              /\ dSaved' = IF writes /\ disk_ok THEN dSaved \cup {i} ELSE dSaved
              /\ CASE status = 0 -> Retry
                   [] status = 403 /\ dVariant = "colima" -> Retry
                   [] status = 404 -> Return("not found")
                   [] status # 0 /\ status # 404 /\ dVariant = "weather" /\ html ->
                         Return("html")
                   [] status \in {403, 500}
                      /\ ~(status = 403 /\ dVariant = "colima")
                      /\ ~(dVariant = "weather" /\ html) -> Retry
                   [] writes /\ disk_ok -> Return("saved")
                   [] writes /\ ~disk_ok ->
                         IF dVariant = "colima"
                         THEN /\ dPc' = "raised"
                              /\ UNCHANGED <<dAttempt, dMsg>>
                         ELSE Return("file")
    /\ UNCHANGED <<dVariant, dResults, dOk, dFail>>

\* main: results.append(msg)
DCollect ==
    /\ UNCHANGED <<hvars, pvars, tvars, cvars, xvars, rvars>>
    /\ dPc = "returned"
    /\ dResults' = Append(dResults, dMsg)
    /\ dPc' = "next"
    /\ UNCHANGED <<dVariant, dAttempt, dMsg, dLast, dGets, dSaved, dOk, dFail>>

\* main of weather_data_downloader.py after the loop: ok and fail
DSummary ==
    /\ UNCHANGED <<hvars, pvars, tvars, cvars, xvars, rvars>>
    /\ dPc = "next"
    /\ dVariant = "weather"
    /\ dOk' = Cardinality({k \in 1..Len(dResults) :
                  contains(dResults[k], <<"S","a","v","e","d">>)})
    /\ dFail' = Cardinality({k \in 1..Len(dResults) :
                  \/ contains(dResults[k], <<"F","a","i","l","e","d">>)
                  \/ contains(dResults[k], <<"N","o","t"," ","f","o","u","n","d">>)})
    /\ dPc' = "summary"
    /\ UNCHANGED <<dVariant, dAttempt, dMsg, dLast, dGets, dSaved, dResults>>

DNext == DCall \/ DAttempt \/ DCollect \/ DSummary

SpecDownload == FnInit /\ [][DNext]_vars

(***************************************************************************)
(* C19: download_station_csv ends with a status message after at most the  *)
(* configured number of requests: a 404 response ends it at once with the  *)
(* not-found message, a failed attempt is followed by another one only     *)
(* while attempts remain, and the file is written only in an attempt whose  *)
(* response was successful.                                                *)
(***************************************************************************)
C19_EndsWithMessageWithinRetries ==
    /\ dPc # "raised"
    /\ dGets <= max_retries(dVariant)
    /\ dPc = "loop" => dAttempt <= max_retries(dVariant) /\ dGets = dAttempt - 1
    /\ dPc = "returned" => dMsg # <<>>
    /\ dPc \in {"loop", "returned"} /\ dLast.status = 404 =>
          /\ dPc = "returned"
          /\ contains(dMsg, <<"N","o","t"," ","f","o","u","n","d">>)
    /\ dLast.wrote => dLast.status = 200
    /\ dPc \in {"loop", "returned"} =>
          ((Len(dResults) + 1) \in dSaved <=> dLast.wrote)

(***************************************************************************)
(* C20: in the summary of weather_data_downloader.py every result is       *)
(* counted once: the successful count plus the failed/missing count is the *)
(* number of stations attempted, and the successful count is the number of *)
(* files saved.                                                            *)
(***************************************************************************)
C20_EveryResultCountedOnce ==
    dPc = "summary" =>
        /\ dOk + dFail = Len(dResults)
        /\ dOk = Cardinality(dSaved)

=============================================================================
